---- MODULE Spec2Model ----
(***************************************************************************)
(* Revert-to-default state machine of the custom widgets in                *)
(* omni/flaming/font/ui/custom_ui_widget.py: CustomComboboxWidget,         *)
(* CustomBoolWidget, CustomSliderWidget, CustomSkySelectionGroup and       *)
(* CustomFlowSelectionGroup.                                               *)
(*                                                                         *)
(* One behaviour follows one widget instance.  Numbers of the slider are   *)
(* counted in halves (3 stands for 1.5) so that the truncation done by an  *)
(* integer value model is visible.                                         *)
(***************************************************************************)
EXTENDS Integers, Sequences, FiniteSets, TLC

VARIABLES
    kind,         \* class of the widget
    default_val,  \* __default_val; "" (nothing selected) for a button group
    num_type,     \* __num_type of a slider, "none" for the other classes
    on_fn,        \* TRUE iff on_checked_fn / on_slide_fn / on_select_fn is set
    built,        \* TRUE once _build_body has set the inner control(s)
    value,        \* combobox index, __bool_image.checked, slider model value,
                  \* or the sky_type field of a group (never reassigned)
    enabled,      \* revert_img.enabled, i.e. is_dirty()
    pressed,      \* labels of the buttons named control_button_pressed2
    last          \* the last handler call: operation, argument, whether it
                  \* raised, the callback calls it made with the state each
                  \* call could observe, and the state before the call

vars == <<kind, default_val, num_type, on_fn, built, value, enabled, pressed, last>>

config == <<kind, default_val, num_type, on_fn>>

\* Largest magnitude of a slider number, in halves.
MaxNum == 3

\* Number of entries of the combobox option list.
MaxOptions == 3

Kinds == {"combobox", "bool", "slider", "sky", "flow"}

Groups == {"sky", "flow"}

Numbers == (0 - MaxNum)..MaxNum

SkyOptions == {"clear", "cloudy", "overcast", "night"}

FlowOptions == {"fire", "smoke", "dust"}

\* Every label a caller may hand to _on_button; the labels of the other
\* group are not attributes button_<label> of this one.
Labels == SkyOptions \cup FlowOptions

Capitalize == [l \in Labels |->
    CASE l = "clear" -> "Clear"
      [] l = "cloudy" -> "Cloudy"
      [] l = "overcast" -> "Overcast"
      [] l = "night" -> "Night"
      [] l = "fire" -> "Fire"
      [] l = "smoke" -> "Smoke"
      [] l = "dust" -> "Dust"]

\* int() of a number counted in halves: truncation toward zero.
AsInt(x) == IF x >= 0 THEN (x \div 2) * 2 ELSE 0 - (((0 - x) \div 2) * 2)

\* The value an IntSlider / FloatSlider model holds after set_value(x),
\* which is also what model.as_int / model.as_float return.
ModelValue(t, x) == IF t = "float" THEN x ELSE AsInt(x)

\* Default values a widget of each class is constructed with.  A slider
\* default is taken from the slider's own number type.
Defaults(k, t) ==
    CASE k = "combobox" -> 0..(MaxOptions - 1)
      [] k = "bool" -> BOOLEAN
      [] k = "slider" -> {x \in Numbers : ModelValue(t, x) = x}
      [] OTHER -> {""}

\* Placeholder held by value while the inner control is still None.
NoValue(k, d) == IF k \in Groups THEN "" ELSE d

Snap == [value |-> value, enabled |-> enabled, pressed |-> pressed]

Obs(arg, val, en, pr) == [arg |-> arg, value |-> val, enabled |-> en, pressed |-> pr]

Log(op, arg, raised, calls) ==
    [op |-> op, arg |-> arg, raised |-> raised, calls |-> calls,
     pre |-> Snap, prev |-> last.op, prevDirty |-> last.pre.enabled]

Init ==
    /\ kind \in Kinds
    /\ num_type \in (IF kind = "slider" THEN {"int", "float"} ELSE {"none"})
    /\ default_val \in Defaults(kind, num_type)
    /\ on_fn \in (IF kind = "combobox" THEN {FALSE} ELSE BOOLEAN)
    /\ built = FALSE
    /\ value = NoValue(kind, default_val)
    /\ enabled = FALSE
    /\ pressed = {}
    /\ last = [op |-> "init", arg |-> default_val, raised |-> FALSE, calls |-> <<>>,
               pre |-> [value |-> value, enabled |-> FALSE, pressed |-> {}],
               prev |-> "init", prevDirty |-> FALSE]

\* CustomBaseWidget._build_tail: the revert image starts disabled.
BuildTail == FALSE

(***************************************************************************)
(* CustomComboboxWidget                                                    *)
(***************************************************************************)

\* ui.ComboBox(0, *option_list): the combobox is created on index 0,
\* whatever default_value is; the tail then builds the revert image.
ComboBuildBody ==
    /\ kind = "combobox"
    /\ ~built
    /\ built' = TRUE
    /\ value' = 0
    /\ enabled' = BuildTail
    /\ last' = Log("build", default_val, FALSE, <<>>)
    /\ UNCHANGED <<config, pressed>>

\* The user picks index v; the item-changed callback then runs.
ComboOnValueChanged(v) ==
    /\ kind = "combobox"
    /\ IF ~built
       THEN /\ last' = Log("set", v, TRUE, <<>>)
            /\ UNCHANGED <<value, enabled>>
       ELSE /\ value' = v
            /\ enabled' = (default_val # v)
            /\ last' = Log("set", v, FALSE, <<>>)
    /\ UNCHANGED <<config, built, pressed>>

\* set_value(default) notifies _on_value_changed, which recomputes the
\* flag from the new index before the method clears it.
ComboRestoreDefault ==
    /\ kind = "combobox"
    /\ IF ~built
       THEN /\ last' = Log("restore", default_val, TRUE, <<>>)
            /\ UNCHANGED <<value, enabled>>
       ELSE IF enabled
       THEN /\ value' = default_val
            /\ LET flag == (default_val # value') IN enabled' = (flag /\ FALSE)
            /\ last' = Log("restore", default_val, FALSE, <<>>)
       ELSE /\ last' = Log("restore", default_val, FALSE, <<>>)
            /\ UNCHANGED <<value, enabled>>
    /\ UNCHANGED <<config, built, pressed>>

(***************************************************************************)
(* CustomBoolWidget                                                        *)
(***************************************************************************)

BoolBuildBody ==
    /\ kind = "bool"
    /\ ~built
    /\ built' = TRUE
    /\ value' = default_val
    /\ enabled' = BuildTail
    /\ last' = Log("build", default_val, FALSE, <<>>)
    /\ UNCHANGED <<config, pressed>>

\* Body of _on_value_changed: flip the image, recompute the flag, then
\* call on_checked_fn with the new checked value.
BoolToggle(op) ==
    /\ value' = ~value
    /\ enabled' = (default_val # value')
    /\ last' = Log(op, value',  FALSE,
                   IF on_fn THEN <<Obs(value', value', enabled', pressed)>> ELSE <<>>)

\* Mouse press on the image.
BoolOnValueChanged ==
    /\ kind = "bool"
    /\ IF ~built
       THEN /\ last' = Log("set", ~value, TRUE, <<>>)
            /\ UNCHANGED <<value, enabled>>
       ELSE BoolToggle("set")
    /\ UNCHANGED <<config, built, pressed>>

\* BoolRestoreDefault without the test of revert_img.enabled.
BoolRestoreDefaultNoGuard ==
    /\ kind = "bool"
    /\ IF ~built
       THEN /\ last' = Log("restore", default_val, TRUE, <<>>)
            /\ UNCHANGED <<value, enabled>>
       ELSE BoolToggle("restore")
    /\ UNCHANGED <<config, built, pressed>>

BoolRestoreDefault ==
    /\ kind = "bool"
    /\ IF ~built
       THEN /\ last' = Log("restore", default_val, TRUE, <<>>)
            /\ UNCHANGED <<value, enabled>>
       ELSE IF enabled
       THEN BoolToggle("restore")
       ELSE /\ last' = Log("restore", default_val, FALSE, <<>>)
            /\ UNCHANGED <<value, enabled>>
    /\ UNCHANGED <<config, built, pressed>>

(***************************************************************************)
(* CustomSliderWidget                                                      *)
(***************************************************************************)

\* model.set_value(default_val) runs before add_value_changed_fn, so no
\* callback fires while the body is built.
SliderBuildBody ==
    /\ kind = "slider"
    /\ ~built
    /\ built' = TRUE
    /\ value' = ModelValue(num_type, default_val)
    /\ enabled' = BuildTail
    /\ last' = Log("build", default_val, FALSE, <<>>)
    /\ UNCHANGED <<config, pressed>>

\* SliderOnValueChanged reading model.as_int whatever num_type is.
SliderOnValueChangedAsInt(v) ==
    /\ kind = "slider"
    /\ IF ~built
       THEN /\ last' = Log("set", v, TRUE, <<>>)
            /\ UNCHANGED <<value, enabled>>
       ELSE /\ value' = ModelValue(num_type, v)
            /\ LET index == AsInt(value') IN
               /\ enabled' = (default_val # index)
               /\ last' = Log("set", v, FALSE,
                              IF on_fn THEN <<Obs(index, value', enabled', pressed)>>
                                       ELSE <<>>)
    /\ UNCHANGED <<config, built, pressed>>

\* The model receives v (slider drag, field edit or set_value); the
\* value-changed callback reads it back as index.
SliderOnValueChanged(v) ==
    /\ kind = "slider"
    /\ IF ~built
       THEN /\ last' = Log("set", v, TRUE, <<>>)
            /\ UNCHANGED <<value, enabled>>
       ELSE /\ value' = ModelValue(num_type, v)
            /\ LET index == value' IN
               /\ enabled' = (default_val # index)
               /\ last' = Log("set", v, FALSE,
                              IF on_fn THEN <<Obs(index, value', enabled', pressed)>>
                                       ELSE <<>>)
    /\ UNCHANGED <<config, built, pressed>>

\* set_value(default) notifies _on_value_changed (flag recomputed,
\* on_slide_fn called), then the method clears the flag.
SliderRestoreDefault ==
    /\ kind = "slider"
    /\ IF ~built
       THEN /\ last' = Log("restore", default_val, TRUE, <<>>)
            /\ UNCHANGED <<value, enabled>>
       ELSE IF enabled
       THEN /\ value' = ModelValue(num_type, default_val)
            /\ LET index == value'
                   flag == (default_val # index) IN
               /\ enabled' = (flag /\ FALSE)
               /\ last' = Log("restore", default_val, FALSE,
                              IF on_fn THEN <<Obs(index, value', flag, pressed)>>
                                       ELSE <<>>)
       ELSE /\ last' = Log("restore", default_val, FALSE, <<>>)
            /\ UNCHANGED <<value, enabled>>
    /\ UNCHANGED <<config, built, pressed>>

(***************************************************************************)
(* CustomSkySelectionGroup                                                 *)
(***************************************************************************)

SkyBuildBody ==
    /\ kind = "sky"
    /\ ~built
    /\ built' = TRUE
    /\ pressed' = {}
    /\ enabled' = BuildTail
    /\ last' = Log("build", default_val, FALSE, <<>>)
    /\ UNCHANGED <<config, value>>

\* SkyOnButton without the call of enable_buttons.
SkyOnButtonNoReset(sky_type) ==
    /\ kind = "sky"
    /\ LET calls == IF on_fn
                    THEN <<Obs(Capitalize[sky_type], value, enabled, pressed)>>
                    ELSE <<>> IN
       IF ~built
       THEN /\ last' = Log("set", sky_type, TRUE, calls)
            /\ UNCHANGED <<pressed, enabled>>
       ELSE IF sky_type \in SkyOptions
       THEN /\ pressed' = pressed \cup {sky_type}
            /\ enabled' = TRUE
            /\ last' = Log("set", sky_type, FALSE, calls)
       ELSE /\ last' = Log("set", sky_type, TRUE, calls)
            /\ UNCHANGED <<pressed, enabled>>
    /\ UNCHANGED <<config, built, value>>

\* on_select_fn is called first, on the state before the click; then
\* enable_buttons resets every button; then getattr looks the button up
\* and raises AttributeError when there is no button_<sky_type>.
SkyOnButton(sky_type) ==
    /\ kind = "sky"
    /\ LET calls == IF on_fn
                    THEN <<Obs(Capitalize[sky_type], value, enabled, pressed)>>
                    ELSE <<>> IN
       IF ~built
       THEN /\ last' = Log("set", sky_type, TRUE, calls)
            /\ UNCHANGED <<pressed, enabled>>
       ELSE IF sky_type \in SkyOptions
       THEN /\ pressed' = {sky_type}
            /\ enabled' = TRUE
            /\ last' = Log("set", sky_type, FALSE, calls)
       ELSE /\ pressed' = {}
            /\ last' = Log("set", sky_type, TRUE, calls)
            /\ UNCHANGED enabled
    /\ UNCHANGED <<config, built, value>>

\* SkyRestoreDefault without the test of revert_img.enabled.
SkyRestoreDefaultNoGuard ==
    /\ kind = "sky"
    /\ IF ~built
       THEN /\ last' = Log("restore", default_val, TRUE, <<>>)
            /\ UNCHANGED <<pressed, enabled>>
       ELSE /\ enabled' = FALSE
            /\ pressed' = {}
            /\ last' = Log("restore", default_val, ~on_fn,
                           IF on_fn THEN <<Obs("", value, enabled', pressed')>>
                                    ELSE <<>>)
    /\ UNCHANGED <<config, built, value>>

\* on_select_fn("") is called without testing that it is set.
SkyRestoreDefault ==
    /\ kind = "sky"
    /\ IF ~built
       THEN /\ last' = Log("restore", default_val, TRUE, <<>>)
            /\ UNCHANGED <<pressed, enabled>>
       ELSE IF enabled
       THEN /\ enabled' = FALSE
            /\ pressed' = {}
            /\ last' = Log("restore", default_val, ~on_fn,
                           IF on_fn THEN <<Obs("", value, enabled', pressed')>>
                                    ELSE <<>>)
       ELSE /\ last' = Log("restore", default_val, FALSE, <<>>)
            /\ UNCHANGED <<pressed, enabled>>
    /\ UNCHANGED <<config, built, value>>

(***************************************************************************)
(* CustomFlowSelectionGroup                                                *)
(***************************************************************************)

FlowBuildBody ==
    /\ kind = "flow"
    /\ ~built
    /\ built' = TRUE
    /\ pressed' = {}
    /\ enabled' = BuildTail
    /\ last' = Log("build", default_val, FALSE, <<>>)
    /\ UNCHANGED <<config, value>>

FlowOnButton(flow_type) ==
    /\ kind = "flow"
    /\ LET calls == IF on_fn
                    THEN <<Obs(Capitalize[flow_type], value, enabled, pressed)>>
                    ELSE <<>> IN
       IF ~built
       THEN /\ last' = Log("set", flow_type, TRUE, calls)
            /\ UNCHANGED <<pressed, enabled>>
       ELSE IF flow_type \in FlowOptions
       THEN /\ pressed' = {flow_type}
            /\ enabled' = TRUE
            /\ last' = Log("set", flow_type, FALSE, calls)
       ELSE /\ pressed' = {}
            /\ last' = Log("set", flow_type, TRUE, calls)
            /\ UNCHANGED enabled
    /\ UNCHANGED <<config, built, value>>

\* FlowRestoreDefault without the call of enable_buttons.
FlowRestoreDefaultKeepsButtons ==
    /\ kind = "flow"
    /\ IF ~built
       THEN /\ last' = Log("restore", default_val, TRUE, <<>>)
            /\ UNCHANGED <<pressed, enabled>>
       ELSE IF enabled
       THEN /\ enabled' = FALSE
            /\ pressed' = pressed
            /\ last' = Log("restore", default_val, ~on_fn,
                           IF on_fn THEN <<Obs("", value, enabled', pressed')>>
                                    ELSE <<>>)
       ELSE /\ last' = Log("restore", default_val, FALSE, <<>>)
            /\ UNCHANGED <<pressed, enabled>>
    /\ UNCHANGED <<config, built, value>>

\* on_select_fn("") is called without testing that it is set.
FlowRestoreDefault ==
    /\ kind = "flow"
    /\ IF ~built
       THEN /\ last' = Log("restore", default_val, TRUE, <<>>)
            /\ UNCHANGED <<pressed, enabled>>
       ELSE IF enabled
       THEN /\ enabled' = FALSE
            /\ pressed' = {}
            /\ last' = Log("restore", default_val, ~on_fn,
                           IF on_fn THEN <<Obs("", value, enabled', pressed')>>
                                    ELSE <<>>)
       ELSE /\ last' = Log("restore", default_val, FALSE, <<>>)
            /\ UNCHANGED <<pressed, enabled>>
    /\ UNCHANGED <<config, built, value>>

Next ==
    \/ ComboBuildBody
    \/ \E v \in 0..(MaxOptions - 1) : ComboOnValueChanged(v)
    \/ ComboRestoreDefault
    \/ BoolBuildBody
    \/ BoolOnValueChanged
    \/ BoolRestoreDefault
    \/ SliderBuildBody
    \/ \E v \in Numbers : SliderOnValueChanged(v)
    \/ SliderRestoreDefault
    \/ SkyBuildBody
    \/ \E l \in Labels : SkyOnButton(l)
    \/ SkyRestoreDefault
    \/ FlowBuildBody
    \/ \E l \in Labels : FlowOnButton(l)
    \/ FlowRestoreDefault

Spec == Init /\ [][Next]_vars

(***************************************************************************)
(* Derived notions                                                         *)
(***************************************************************************)

IsGroup == kind \in Groups

\* The widget's current value: the model value, or for a button group the
\* label of the pressed button ("" when none is pressed).
Current == IF IsGroup
           THEN (IF pressed = {} THEN "" ELSE CHOOSE l \in pressed : TRUE)
           ELSE value

\* What a change callback is handed for a given current value.
Reported(cur) == IF IsGroup /\ cur # "" THEN Capitalize[cur] ELSE cur

Options == IF kind = "sky" THEN SkyOptions ELSE FlowOptions

TypeOK ==
    /\ kind \in Kinds
    /\ built \in BOOLEAN
    /\ enabled \in BOOLEAN
    /\ pressed \subseteq Labels
    /\ last.op \in {"init", "build", "set", "restore"}

\* A value the widget's own domain contains: an integer slider holds whole
\* numbers only; every other input set is already the domain.
InDomain(v) == kind = "slider" => ModelValue(num_type, v) = v

\* A call made on a widget that is not built, or a button-group label
\* that is not one of the group's options.
ProgrammerError ==
    \/ ~built
    \/ IsGroup /\ last.op = "set" /\ last.arg \notin Options

(***************************************************************************)
(* Properties                                                              *)
(***************************************************************************)

\* C1: after set(v) has run its handler on a built widget, with v a value
\* of the widget's domain, is_dirty() (revert_img.enabled) equals
\* (v # default); so set(default) from Dirty ends Clean.
C1_DirtyAfterSet ==
    (built /\ last.op = "set" /\ ~last.raised /\ InDomain(last.arg))
        => (enabled = (last.arg # default_val))

\* C1 witness: set(default) ran on a Dirty widget and left it Clean.
C1_Witness ==
    /\ built /\ last.op = "set" /\ ~last.raised
    /\ last.pre.enabled
    /\ last.arg = default_val
    /\ ~enabled

\* C2: right after the widget is built it is Clean: current = default and
\* is_dirty() is false.
C2_InitialClean ==
    (built /\ last.op = "build") => (Current = default_val /\ ~enabled)

\* C3: restore_default() on a built widget always ends with
\* current = default and is_dirty() false.
C3_RestoreReachesDefault ==
    (built /\ last.op = "restore") => (Current = default_val /\ ~enabled)

\* C4: at most one button of a group is marked selected, and after a
\* selection it is the button chosen last.
C4_Exclusive ==
    /\ Cardinality(pressed) <= 1
    /\ (IsGroup /\ built /\ last.op = "set" /\ ~last.raised)
           => (pressed = {last.arg})

\* C4 witness: B was selected while a different button A was marked.
C4_Witness ==
    /\ IsGroup /\ built /\ last.op = "set" /\ ~last.raised
    /\ last.pre.pressed # {}
    /\ last.arg \notin last.pre.pressed
    /\ pressed = {last.arg}

\* C5: restore_default() on a Dirty button group leaves no button marked,
\* is_dirty() false, and reports only the empty string through on_select_fn.
C5_GroupRestoreClears ==
    (IsGroup /\ built /\ last.op = "restore" /\ last.pre.enabled)
        => /\ pressed = {}
           /\ Current = ""
           /\ ~enabled
           /\ \A i \in DOMAIN last.calls : last.calls[i].arg = ""
           /\ on_fn => Len(last.calls) = 1

\* C5 witness: a group with a marked button and a registered callback was
\* restored and the callback was called.
C5_Witness ==
    /\ IsGroup /\ built /\ last.op = "restore"
    /\ last.pre.enabled /\ last.pre.pressed # {}
    /\ on_fn /\ Len(last.calls) = 1

\* C6: restore_default() on a built widget whose is_dirty() is false
\* changes nothing, calls no change callback and does not raise.
C6_RestoreCleanNoOp ==
    (built /\ last.op = "restore" /\ ~last.pre.enabled)
        => (Snap = last.pre /\ last.calls = <<>> /\ ~last.raised)

\* C6 witness: restore_default() ran on a built Clean widget that has a
\* change callback registered.
C6_Witness ==
    /\ built /\ last.op = "restore" /\ ~last.pre.enabled
    /\ on_fn
    /\ last.prev = "set"

\* C7: a restore_default() that directly follows a restore_default()
\* changes nothing.
C7_RestoreIdempotent ==
    (built /\ last.op = "restore" /\ last.prev = "restore")
        => (Snap = last.pre)

\* C7 witness: two restore_default() calls in a row, the first of them on
\* a Dirty widget.
C7_Witness ==
    /\ built /\ last.op = "restore" /\ last.prev = "restore"
    /\ last.prevDirty
    /\ ~enabled

\* C8: on a built widget set(v), with v of the domain, and
\* restore_default() never raise, with or without a registered callback.
C8_NoErrors ==
    (built /\ last.op \in {"set", "restore"} /\ ~ProgrammerError)
        => ~last.raised

\* C9: a change callback is handed the new current value and sees
\* is_dirty() and the selection marks as they are after the operation.
C9_CallbackSeesPostState ==
    (built /\ last.op \in {"set", "restore"} /\ ~last.raised)
        => \A i \in DOMAIN last.calls :
               last.calls[i] = Obs(Reported(Current), value, enabled, pressed)

\* C10: a call that is a programmer error raises before any effect: no
\* change callback is called and current, is_dirty() and the selection
\* marks stay as they were.
C10_FailFast ==
    (last.op \in {"set", "restore"} /\ ProgrammerError)
        => (last.raised /\ last.calls = <<>> /\ Snap = last.pre)

====
